---- MODULE Spec2Model ----
\* check-windows-eventlog: the incremental scan of Windows event logs
\* (searchLog), its offset kept in a state file, the filter pipeline applied
\* to each record read, and the threshold status computed by run.
EXTENDS Integers, Sequences, FiniteSets, TLC

VARIABLES
    opts,       \* the logOpts built by parseArgs/prepare, the same for every invocation
    evlog,      \* per log name: [first, recs], the records the OS holds now
    stateFile,  \* per log name: the state file's content, NoFile when absent
    inv,        \* per invocation: position (pc) and the locals of run and searchLog
    active,     \* the invocations that may run
    visits,     \* history: per log and record number, how often a scan read it
    base,       \* history: per log, the offset written by the first bootstrap
    clean       \* history: no record was removed and no call to the OS or the state file failed so far

vars == <<opts, evlog, stateFile, inv, active, visits, base, clean>>

-----------------------------------------------------------------------------
\* Bounds of the model

\* highest record number the log source hands out
MaxRec == 3
\* the modulus standing for 2^32 in the uint32 record-number arithmetic
Width == 16
\* longest idRangeList drawn for the ID filter
MaxRanges == 3
\* highest bound (lo, hi) of a drawn idRange
MaxId == 2
\* highest threshold drawn for WarnOver and CritOver
MaxOver == 2
\* most records of one log in the aggregation runs
MaxAggRecs == 2

-----------------------------------------------------------------------------
\* Data

Procs == {1, 2}
LogNames == {"Application", "System"}
NoFile == -1
NoBase == -1

TypeNames == {"Error", "Warning", "Information", "Audit Success", "Audit Failure"}
SourceNames == {"app", "svc"}
\* "" is the message of a record whose message resource is not found
Messages == {"", "boom"}
NoMessage == "[mackerel-agent] No message resource found."

\* r.EventID & 0x0000FFFF keeps EventID modulo IdMod
IdMod == 65536

\* uint32 arithmetic on record numbers
U32(x) == (x + Width) % Width

\* a compiled pattern: nil, or the set of strings it matches
NilPattern == [nil |-> TRUE, matches |-> {}]
Pattern(S) == [nil |-> FALSE, matches |-> S]
MatchString(p, s) == s \in p.matches

Record(id, tn, src, msg, len) ==
    [EventID |-> id, EventType |-> tn, SourceName |-> src, Message |-> msg, Length |-> len]

-----------------------------------------------------------------------------
\* The ID-range stage of the loop body

InRange(idr, eventID) == idr.lo <= eventID /\ eventID <= idr.hi

\* a negated range that does not hold the ID turns found on, whatever came before
idRangeStepAlwaysAllow(st, idr, eventID) ==
    IF ~idr.bang
    THEN [found |-> IF InRange(idr, eventID) THEN TRUE ELSE st.found, exact |-> TRUE]
    ELSE [found |-> ~InRange(idr, eventID), exact |-> st.exact]

\* a negated range that holds the ID leaves found as it is
idRangeStepNoOverride(st, idr, eventID) ==
    IF ~idr.bang
    THEN [found |-> IF InRange(idr, eventID) THEN TRUE ELSE st.found, exact |-> TRUE]
    ELSE IF ~InRange(idr, eventID) /\ ~st.exact
         THEN [found |-> TRUE, exact |-> st.exact]
         ELSE st

\* a negated range that does not hold the ID leaves found as it is
idRangeStepNoDefault(st, idr, eventID) ==
    IF ~idr.bang
    THEN [found |-> IF InRange(idr, eventID) THEN TRUE ELSE st.found, exact |-> TRUE]
    ELSE IF InRange(idr, eventID)
         THEN [found |-> FALSE, exact |-> st.exact]
         ELSE st

\* one iteration of the loop over opts.idRangeList; st = [found, exact]
idRangeStep(st, idr, eventID) ==
    IF ~idr.bang
    THEN [found |-> IF InRange(idr, eventID) THEN TRUE ELSE st.found, exact |-> TRUE]
    ELSE IF InRange(idr, eventID)
         THEN [found |-> FALSE, exact |-> st.exact]
         ELSE IF ~st.exact
              THEN [found |-> TRUE, exact |-> st.exact]
              ELSE st

RECURSIVE idRangeLoop(_, _, _)
idRangeLoop(list, eventID, st) ==
    IF list = <<>> THEN st
    ELSE idRangeLoop(Tail(list), eventID, idRangeStep(st, Head(list), eventID))

\* found after the loop, for the record's EventID masked to its lower 16 bits
idRangeFound(list, EventID) ==
    idRangeLoop(list, EventID % IdMod, [found |-> FALSE, exact |-> FALSE]).found

typeFound(typeList, tn) == \E k \in 1..Len(typeList) : typeList[k] = tn

\* Audit Failure is not counted
TallyNoAudit(o, st, r) ==
    LET message == IF r.Message = "" THEN NoMessage ELSE r.Message
        lines == IF o.ReturnContent
                 THEN Append(st.errLines, <<r.SourceName, message>>)
                 ELSE st.errLines
    IN  [st EXCEPT !.errLines = lines,
                   !.critNum = IF r.EventType = "Error" THEN @ + 1 ELSE @,
                   !.warnNum = IF r.EventType = "Warning" THEN @ + 1 ELSE @]

\* the counts and content after a record that passed every filter
Tally(o, st, r) ==
    LET message == IF r.Message = "" THEN NoMessage ELSE r.Message
        lines == IF o.ReturnContent
                 THEN Append(st.errLines, <<r.SourceName, message>>)
                 ELSE st.errLines
    IN  [st EXCEPT !.errLines = lines,
                   !.critNum = IF r.EventType \in {"Error", "Audit Failure"} THEN @ + 1 ELSE @,
                   !.warnNum = IF r.EventType = "Warning" THEN @ + 1 ELSE @]

\* the filter stages of the loop body; a stage that is not configured passes
idStage(o, r) == o.idRangeList = <<>> \/ idRangeFound(o.idRangeList, r.EventID)
typeStage(o, r) == Len(o.typeList) = 0 \/ typeFound(o.typeList, r.EventType)
sourcePatternStage(o, r) ==
    o.sourcePattern.nil \/ MatchString(o.sourcePattern, r.SourceName)
sourceExcludeStage(o, r) ==
    o.sourceExclude.nil \/ ~MatchString(o.sourceExclude, r.SourceName)
messagePatternStage(o, r) ==
    o.messagePattern.nil \/ MatchString(o.messagePattern, r.Message)
messageExcludeIgnored(o, r) == TRUE
messageExcludeStage(o, r) ==
    o.messageExclude.nil \/ ~MatchString(o.messageExclude, r.Message)

\* the loop body below line 372: each failed stage continues with the next record
Filter(o, st, r) ==
    IF ~idStage(o, r) THEN st
    ELSE IF ~typeStage(o, r) THEN st
    ELSE IF ~sourcePatternStage(o, r) THEN st
    ELSE IF ~sourceExcludeStage(o, r) THEN st
    ELSE IF ~messagePatternStage(o, r) THEN st
    ELSE IF ~messageExcludeStage(o, r) THEN st
    ELSE Tally(o, st, r)

VisitLastOnMatch(o, st, r, n) ==
    LET f == Filter(o, [st EXCEPT !.seen = Append(@, n)], r)
    IN  IF f.warnNum # st.warnNum \/ f.critNum # st.critNum
        THEN [f EXCEPT !.lastNumber = n] ELSE f

\* the loop body after a successful read of record r, numbered n
Visit(o, st, r, n) ==
    Filter(o, [st EXCEPT !.lastNumber = n, !.seen = Append(@, n)], r)

-----------------------------------------------------------------------------
\* The log source as the OS presents it

\* GetNumberOfEventLogRecords
NumberOfRecords(l) == Len(evlog[l].recs)
\* GetOldestEventLogRecord: 0 for a log that holds no record
OldestRecord(l) == IF evlog[l].recs = <<>> THEN 0 ELSE evlog[l].first
\* the number the next appended record gets
NextNumber(l) == evlog[l].first + Len(evlog[l].recs)
Holds(l, n) == evlog[l].recs # <<>> /\ evlog[l].first <= n /\ n < NextNumber(l)

\* the record number ReadEventLog delivers for offset i: a sequential read
\* (i = 0) delivers the oldest record, a seek read the record numbered i;
\* 0 when there is no such record
ReadTarget(l, i) ==
    IF i = 0 THEN OldestRecord(l)
    ELSE IF Holds(l, i) THEN i ELSE 0
RecordAt(l, n) == evlog[l].recs[n - evlog[l].first + 1]

-----------------------------------------------------------------------------
\* One invocation: run and, per log, searchLog

NoReturn == [w |-> 0, c |-> 0, errLines |-> <<>>, err |-> ""]

\* the locals of searchLog before its first statement, and its history:
\* attempts, the reads tried for record i; stop, the read result that broke
\* the loop; queryFailed and writeFailed, a bounds query or a state write
\* failed; wrote, the state writes done
ScanLocals ==
    [recordNumber |-> 0, offset |-> 0, num |-> 0, oldnum |-> 0, lastNumber |-> 0,
     i |-> 0, size |-> 0, warnNum |-> 0, critNum |-> 0, errLines |-> <<>>,
     seen |-> <<>>, hadFile |-> FALSE, ret |-> NoReturn,
     attempts |-> 0, stop |-> "", queryFailed |-> FALSE, writeFailed |-> FALSE,
     wrote |-> 0]

RunLocals ==
    [pc |-> "idle", logIdx |-> 0, runWarnNum |-> 0, runCritNum |-> 0,
     errorOverall |-> <<>>, result |-> "", fault |-> FALSE, before |-> <<>>]

Merge(f, g) == [k \in DOMAIN f \cup DOMAIN g |-> IF k \in DOMAIN g THEN g[k] ELSE f[k]]
Idle == Merge(RunLocals, ScanLocals)

LogName(p) == opts.logList[inv[p].logIdx]

Set(p, st) == inv' = [inv EXCEPT ![p] = st]

\* return w, c, errLines, err from searchLog
Return(st, w, c, lines, e) ==
    [st EXCEPT !.pc = "ret", !.ret = [w |-> w, c |-> c, errLines |-> lines, err |-> e]]

\* the histories clean and visits are kept for the runs that keep state
StillClean(fail) == clean' = IF opts.NoState THEN clean ELSE clean /\ ~fail

\* history: a call to the OS or the state file failed during this invocation
Failed(st, fail) == [st EXCEPT !.fault = @ \/ fail]

\* run, lines 176-190: the invocation starts with its first log
RunStart(p) ==
    /\ p \in active
    /\ inv[p].pc \in {"idle", "done", "fatal"}
    /\ Set(p, [Idle EXCEPT !.pc = "load", !.logIdx = 1, !.before = stateFile])
    /\ UNCHANGED <<opts, evlog, stateFile, active, visits, base, clean>>

\* searchLog, lines 276-284: getLastOffset unless NoState
LoadOffset(p) ==
    /\ inv[p].pc = "load"
    /\ \E fail \in (IF opts.NoState THEN {FALSE} ELSE BOOLEAN) :
        LET st == inv[p]
            s == IF opts.NoState \/ stateFile[LogName(p)] = NoFile
                 THEN 0 ELSE stateFile[LogName(p)]
        IN  /\ IF fail
               THEN Set(p, Return(Failed(st, TRUE), 0, 0, <<>>, "getLastOffset"))
               ELSE Set(p, [st EXCEPT !.pc = "open", !.recordNumber = U32(s),
                                      !.offset = U32(s),
                                      !.hadFile = ~opts.NoState /\ stateFile[LogName(p)] # NoFile])
            /\ StillClean(fail)
    /\ UNCHANGED <<opts, evlog, stateFile, active, visits, base>>

\* lines 286-291: OpenEventLog; a failure ends the process in log.Fatal
OpenEventLog(p) ==
    /\ inv[p].pc = "open"
    /\ \E fail \in BOOLEAN :
        /\ Set(p, [Failed(inv[p], fail) EXCEPT !.pc = IF fail THEN "fatal" ELSE "num"])
        /\ StillClean(fail)
    /\ UNCHANGED <<opts, evlog, stateFile, active, visits, base>>

\* lines 295-298: the call's own error is dropped, num stays 0 when it fails
GetNumberOfEventLogRecords(p) ==
    /\ inv[p].pc = "num"
    /\ \E fail \in BOOLEAN :
        /\ Set(p, [Failed(inv[p], fail) EXCEPT !.pc = "oldest",
                                 !.queryFailed = @ \/ fail,
                                 !.num = IF fail THEN 0 ELSE NumberOfRecords(LogName(p))])
        /\ StillClean(fail)
    /\ UNCHANGED <<opts, evlog, stateFile, active, visits, base>>

\* lines 299-302: the call's own error is dropped, oldnum stays 0 when it fails
GetOldestEventLogRecord(p) ==
    /\ inv[p].pc = "oldest"
    /\ \E fail \in BOOLEAN :
        /\ Set(p, [Failed(inv[p], fail) EXCEPT !.pc = "start",
                                 !.queryFailed = @ \/ fail,
                                 !.oldnum = IF fail THEN 0 ELSE OldestRecord(LogName(p))])
        /\ StillClean(fail)
    /\ UNCHANGED <<opts, evlog, stateFile, active, visits, base>>

\* lines 304-305: no offset loaded, state kept, fail-first not asked
IsBootstrap(st) == st.recordNumber = 0 /\ ~opts.NoState /\ ~opts.FailFirst

BootstrapOffsetNoMinus(st) == U32(st.oldnum + st.num)

\* line 306: the offset the bootstrap writes, oldnum+num-1 in uint32
BootstrapOffset(st) == U32(st.oldnum + st.num - 1)

\* lines 304-309: write the newest record number and return without reading
Bootstrap(p) ==
    /\ inv[p].pc = "start"
    /\ IsBootstrap(inv[p])
    /\ \E fail \in BOOLEAN :
        LET st == [Failed(inv[p], fail) EXCEPT !.writeFailed = fail,
                                               !.wrote = IF fail THEN @ ELSE @ + 1]
            l == LogName(p)
            newest == BootstrapOffset(st)
        IN  /\ Set(p, Return(st, 0, 0, <<>>, IF fail THEN "writeLastOffset" ELSE ""))
            /\ stateFile' = IF fail THEN stateFile ELSE [stateFile EXCEPT ![l] = newest]
            /\ base' = IF fail \/ base[l] # NoBase THEN base ELSE [base EXCEPT ![l] = newest]
            /\ StillClean(fail)
    /\ UNCHANGED <<opts, evlog, active, visits>>

SeekStartNoRecovery(st) ==
    IF st.recordNumber = U32(st.oldnum + st.num - 1)
    THEN Return(st, 0, 0, <<>>, "")
    ELSE [st EXCEPT !.pc = "loop", !.lastNumber = st.recordNumber,
                    !.recordNumber = U32(st.recordNumber + 1),
                    !.i = U32(st.recordNumber + 1), !.size = 1]

\* lines 311-325: where the loop starts, or nothing to read
SeekStartLocals(st) ==
    IF st.oldnum <= st.recordNumber
    THEN IF st.recordNumber = U32(st.oldnum + st.num - 1)
         THEN Return(st, 0, 0, <<>>, "")
         ELSE [st EXCEPT !.pc = "loop", !.lastNumber = st.recordNumber,
                         !.recordNumber = U32(st.recordNumber + 1),
                         !.i = U32(st.recordNumber + 1), !.size = 1]
    ELSE [st EXCEPT !.pc = "loop", !.recordNumber = st.oldnum,
                    !.i = st.oldnum, !.size = 1]

SeekStart(p) ==
    /\ inv[p].pc = "start"
    /\ ~IsBootstrap(inv[p])
    /\ Set(p, SeekStartLocals(inv[p]))
    /\ UNCHANGED <<opts, evlog, stateFile, active, visits, base, clean>>

\* the loop condition of line 328
InLoop(st) == st.i < U32(st.oldnum + st.num)

\* visits is kept for as long as the history is clean
CountVisit(l, n) ==
    visits' = IF clean' /\ ~opts.NoState
              THEN [visits EXCEPT ![l][n] = IF @ < 2 THEN @ + 1 ELSE @]
              ELSE visits

\* the buffer is resized to one byte less than the size reported
nextSizeShort(l, n) == RecordAt(l, n).Length - 1

\* the size a read with too small a buffer reports: the length of the record
nextSize(l, n) == RecordAt(l, n).Length

\* lines 328-348 and 365-479: the first read of record i and, when it
\* succeeds, the loop body; a read of a record the log does not hold fails
\* with errorInvalidParameter and breaks the loop
ReadEventLog(p) ==
    /\ inv[p].pc = "loop"
    /\ InLoop(inv[p])
    /\ \E fail \in BOOLEAN :
        LET st == inv[p]
            l == LogName(p)
            n == ReadTarget(l, st.i)
        IN  /\ StillClean(fail)
            /\ IF fail
               THEN Set(p, Return([Failed(st, TRUE) EXCEPT !.attempts = 1],
                                  0, 0, <<>>, "ReadEventLog"))
                    /\ UNCHANGED visits
               ELSE IF n = 0
               THEN Set(p, [st EXCEPT !.pc = "write", !.attempts = 1, !.stop = "eol"])
                    /\ UNCHANGED visits
               ELSE IF st.size < RecordAt(l, n).Length
               THEN Set(p, [st EXCEPT !.pc = "retry", !.attempts = 1,
                                      !.size = nextSize(l, n)])
                    /\ UNCHANGED visits
               ELSE /\ Set(p, [Visit(opts, st, RecordAt(l, n), n)
                                 EXCEPT !.i = U32(st.i + 1), !.attempts = 1])
                    /\ CountVisit(l, n)
    /\ UNCHANGED <<opts, evlog, stateFile, active, base>>

\* lines 349-363: the read repeated with the resized buffer; any failure is
\* logged and ends the loop
ReadEventLogRetry(p) ==
    /\ inv[p].pc = "retry"
    /\ \E fail \in BOOLEAN :
        LET st == inv[p]
            l == LogName(p)
            n == ReadTarget(l, st.i)
        IN  /\ StillClean(fail)
            /\ IF fail \/ n = 0 \/ (n # 0 /\ st.size < RecordAt(l, n).Length)
               THEN Set(p, [Failed(st, fail) EXCEPT
                               !.pc = "write", !.attempts = @ + 1,
                               !.stop = IF fail THEN "error"
                                        ELSE IF n = 0 THEN "eol" ELSE "short"])
                    /\ UNCHANGED visits
               ELSE /\ Set(p, [Visit(opts, st, RecordAt(l, n), n)
                                 EXCEPT !.pc = "loop", !.i = U32(st.i + 1),
                                        !.attempts = @ + 1])
                    /\ CountVisit(l, n)
    /\ UNCHANGED <<opts, evlog, stateFile, active, base>>

\* the offset is written as the loop ends, before the write of line 482
LoopEndSaving(p) ==
    /\ inv[p].pc = "loop"
    /\ ~InLoop(inv[p])
    /\ Set(p, [inv[p] EXCEPT !.pc = "write", !.wrote = IF opts.NoState THEN @ ELSE @ + 1])
    /\ stateFile' = IF opts.NoState THEN stateFile
                    ELSE [stateFile EXCEPT ![LogName(p)] = inv[p].lastNumber]
    /\ UNCHANGED <<opts, evlog, active, visits, base, clean>>

\* line 328: the loop condition fails
LoopEnd(p) ==
    /\ inv[p].pc = "loop"
    /\ ~InLoop(inv[p])
    /\ Set(p, [inv[p] EXCEPT !.pc = "write"])
    /\ UNCHANGED <<opts, evlog, stateFile, active, visits, base, clean>>

\* the write keeps an offset in the file that is higher than lastNumber
WriteLastOffsetMonotone(p) ==
    /\ inv[p].pc = "write"
    /\ LET st == [inv[p] EXCEPT !.wrote = @ + 1]
           l == LogName(p)
       IN  /\ stateFile' = [stateFile EXCEPT ![l] = IF @ > st.lastNumber THEN @
                                                    ELSE st.lastNumber]
           /\ Set(p, Return(st, st.warnNum, st.critNum, st.errLines, ""))
    /\ UNCHANGED <<opts, evlog, active, visits, base, clean>>

\* lines 481-491: write lastNumber unless NoState, then return the counts
WriteLastOffset(p) ==
    /\ inv[p].pc = "write"
    /\ \E fail \in (IF opts.NoState THEN {FALSE} ELSE BOOLEAN) :
        LET st == [Failed(inv[p], fail) EXCEPT
                      !.writeFailed = fail,
                      !.wrote = IF opts.NoState \/ fail THEN @ ELSE @ + 1]
            l == LogName(p)
        IN  /\ stateFile' = IF opts.NoState \/ fail THEN stateFile
                            ELSE [stateFile EXCEPT ![l] = st.lastNumber]
            /\ StillClean(fail)
            /\ IF st.recordNumber = 0 /\ ~opts.FailFirst
               THEN Set(p, Return(st, 0, 0, <<>>, ""))
               ELSE Set(p, Return(st, st.warnNum, st.critNum, st.errLines, ""))
    /\ UNCHANGED <<opts, evlog, active, visits, base>>

\* the thresholds compared with >= in place of >
StatusAtLeast(warnNum, critNum) ==
    IF critNum >= opts.CritOver THEN "CRITICAL"
    ELSE IF warnNum >= opts.WarnOver THEN "WARNING"
    ELSE "OK"

\* run, lines 207-212
Status(warnNum, critNum) ==
    IF critNum > opts.CritOver THEN "CRITICAL"
    ELSE IF warnNum > opts.WarnOver THEN "WARNING"
    ELSE "OK"

\* run, lines 193-213: take searchLog's return, go on to the next log or finish
Collect(p) ==
    /\ inv[p].pc = "ret"
    /\ LET st == inv[p]
           w == st.runWarnNum + st.ret.w
           c == st.runCritNum + st.ret.c
           lines == IF opts.ReturnContent THEN st.errorOverall \o st.ret.errLines
                    ELSE st.errorOverall
           run == [pc |-> "load", logIdx |-> st.logIdx + 1, runWarnNum |-> w,
                   runCritNum |-> c, errorOverall |-> lines, result |-> "",
                   fault |-> st.fault, before |-> st.before]
       IN  IF st.ret.err # ""
           THEN Set(p, Merge(Merge(ScanLocals, RunLocals),
                             [pc |-> "done", result |-> "UNKNOWN", fault |-> st.fault,
                              before |-> st.before]))
           ELSE IF st.logIdx < Len(opts.logList)
           THEN Set(p, Merge(ScanLocals, run))
           ELSE Set(p, Merge(ScanLocals,
                             [run EXCEPT !.pc = "done", !.logIdx = st.logIdx,
                                         !.result = Status(w, c)]))
    /\ UNCHANGED <<opts, evlog, stateFile, active, visits, base, clean>>

-----------------------------------------------------------------------------
\* The environment: the OS appends records and overwrites the oldest ones

Configured(l) == \E k \in 1..Len(opts.logList) : opts.logList[k] = l

AppendKinds ==
    {Record(1, "Error", "app", "boom", 2), Record(2, "Information", "svc", "", 3)}

AppendRecord(l) ==
    /\ Configured(l)
    /\ NextNumber(l) <= MaxRec
    /\ \E r \in AppendKinds :
        evlog' = [evlog EXCEPT ![l].recs = Append(@, r)]
    /\ UNCHANGED <<opts, stateFile, inv, active, visits, base, clean>>

RemoveOldest(l) ==
    /\ Configured(l)
    /\ Len(evlog[l].recs) >= 2
    /\ evlog' = [evlog EXCEPT ![l] = [first |-> @.first + 1, recs |-> Tail(@.recs)]]
    /\ clean' = FALSE
    /\ UNCHANGED <<opts, stateFile, inv, active, visits, base>>

-----------------------------------------------------------------------------
\* Specifications

Step(p) ==
    \/ RunStart(p)
    \/ LoadOffset(p)
    \/ OpenEventLog(p)
    \/ GetNumberOfEventLogRecords(p)
    \/ GetOldestEventLogRecord(p)
    \/ SeekStart(p)
    \/ ReadEventLog(p)
    \/ ReadEventLogRetry(p)
    \/ LoopEnd(p)
    \/ WriteLastOffset(p)
    \/ Collect(p)

NoPatterns ==
    [sourcePattern |-> NilPattern, sourceExclude |-> NilPattern,
     messagePattern |-> NilPattern, messageExclude |-> NilPattern]

DriverOpts ==
    {Merge(NoPatterns,
           [NoState |-> ns, FailFirst |-> ff, ReturnContent |-> TRUE,
            WarnOver |-> 0, CritOver |-> 0, logList |-> <<"Application">>,
            typeList |-> <<"Error", "Warning">>, idRangeList |-> <<>>]) :
        ns \in BOOLEAN, ff \in BOOLEAN}

EmptyLog == [first |-> 1, recs |-> <<>>]

InitRest ==
    /\ stateFile = [l \in LogNames |-> NoFile]
    /\ inv = [p \in Procs |-> Idle]
    /\ active = {1}
    /\ visits = [l \in LogNames |-> [n \in 1..MaxRec |-> 0]]
    /\ base = [l \in LogNames |-> NoBase]
    /\ clean = TRUE

\* one invocation after another against one log the OS keeps writing
Init ==
    /\ opts \in DriverOpts
    /\ evlog = [l \in LogNames |-> EmptyLog]
    /\ InitRest

Next ==
    \/ \E p \in Procs : Step(p) \/ Bootstrap(p)
    \/ \E l \in LogNames : AppendRecord(l) \/ RemoveOldest(l)

Spec == Init /\ [][Next]_vars

\* one invocation after another against logs that do not change
NextScan == \E p \in Procs : Step(p)

StaticLog(recs) == [first |-> 1, recs |-> recs]
SeqsUpTo(S, n) == UNION {[1..k -> S] : k \in 0..n}

\* the status of run: two logs of Error and Warning records, every pair of
\* thresholds
AggOpts ==
    {Merge(NoPatterns,
           [NoState |-> TRUE, FailFirst |-> FALSE, ReturnContent |-> FALSE,
            WarnOver |-> wo, CritOver |-> co, logList |-> <<"Application", "System">>,
            typeList |-> <<>>, idRangeList |-> <<>>]) :
        wo \in 0..MaxOver, co \in 0..MaxOver}

AggKinds == {Record(1, "Error", "app", "boom", 2), Record(2, "Warning", "svc", "", 2)}

InitAgg ==
    /\ opts \in AggOpts
    /\ evlog \in [LogNames -> {StaticLog(q) : q \in SeqsUpTo(AggKinds, MaxAggRecs)}]
    /\ InitRest

SpecAgg == InitAgg /\ [][NextScan]_vars

\* the ID-range stage: every idRangeList up to MaxRanges ranges over 1..MaxId
\* against one Error record whose EventID lies in, above or (in its lower 16
\* bits) in the ranges
IdRanges ==
    {[lo |-> a, hi |-> b, bang |-> g] : a \in 1..MaxId, b \in 1..MaxId, g \in BOOLEAN}
IdRangeLists == UNION {[1..k -> {r \in IdRanges : r.lo <= r.hi}] : k \in 1..MaxRanges}
EventIDs == (1..(MaxId + 1)) \cup {1073741824 + 1}

IdOpts ==
    {Merge(NoPatterns,
           [NoState |-> TRUE, FailFirst |-> FALSE, ReturnContent |-> FALSE,
            WarnOver |-> 0, CritOver |-> 0, logList |-> <<"Application">>,
            typeList |-> <<>>, idRangeList |-> list]) :
        list \in IdRangeLists}

InitId ==
    /\ opts \in IdOpts
    /\ \E id \in EventIDs :
          evlog = [l \in LogNames |->
                     IF l = "Application"
                     THEN StaticLog(<<Record(id, "Error", "app", "boom", 2)>>)
                     ELSE EmptyLog]
    /\ InitRest

SpecId == InitId /\ [][NextScan]_vars

\* the filter pipeline: every combination of configured stages against a log
\* of two records, the second of every type, source, message and ID
PipeOpts ==
    {[NoState |-> TRUE, FailFirst |-> FALSE, ReturnContent |-> rc,
      WarnOver |-> 0, CritOver |-> 0, logList |-> <<"Application">>,
      typeList |-> tl, idRangeList |-> idl,
      sourcePattern |-> sp, sourceExclude |-> se,
      messagePattern |-> mp, messageExclude |-> me] :
        rc \in BOOLEAN,
        tl \in {<<>>, <<"Error", "Information">>},
        idl \in {<<>>, <<[lo |-> 1, hi |-> 1, bang |-> FALSE]>>},
        sp \in {NilPattern, Pattern({"app"})},
        se \in {NilPattern, Pattern({"app"})},
        mp \in {NilPattern, Pattern({"boom"})},
        me \in {NilPattern, Pattern({"boom"})}}

PipeRecords ==
    {Record(id, tn, src, msg, 2) :
        id \in {1, 2}, tn \in TypeNames, src \in SourceNames, msg \in Messages}

InitPipe ==
    /\ opts \in PipeOpts
    /\ \E r2 \in PipeRecords :
          evlog = [l \in LogNames |->
                     IF l = "Application"
                     THEN StaticLog(<<Record(1, "Error", "svc", "", 2), r2>>)
                     ELSE EmptyLog]
    /\ InitRest

SpecPipe == InitPipe /\ [][NextScan]_vars

\* two invocations with the same arguments at once, against a log that holds
\* records 1 and 2 and grows, the state file holding 1 from the bootstrap
RaceOpts ==
    Merge(NoPatterns,
          [NoState |-> FALSE, FailFirst |-> FALSE, ReturnContent |-> FALSE,
           WarnOver |-> 0, CritOver |-> 0, logList |-> <<"Application">>,
           typeList |-> <<"Error", "Warning">>, idRangeList |-> <<>>])

InitRace ==
    /\ opts = RaceOpts
    /\ evlog = [l \in LogNames |->
                  IF l = "Application"
                  THEN StaticLog(<<Record(1, "Error", "app", "boom", 2),
                                   Record(1, "Error", "app", "boom", 2)>>)
                  ELSE EmptyLog]
    /\ stateFile = [l \in LogNames |-> IF l = "Application" THEN 1 ELSE NoFile]
    /\ inv = [p \in Procs |-> Idle]
    /\ active = Procs
    /\ visits = [l \in LogNames |-> [n \in 1..MaxRec |-> 0]]
    /\ base = [l \in LogNames |-> IF l = "Application" THEN 1 ELSE NoBase]
    /\ clean = TRUE

\* an invocation of the pair runs once
RunOnce(p) == inv[p].pc = "idle" /\ RunStart(p)

\* the steps of run and searchLog after the start
ScanStep(p) ==
    \/ LoadOffset(p)
    \/ OpenEventLog(p)
    \/ GetNumberOfEventLogRecords(p)
    \/ GetOldestEventLogRecord(p)
    \/ SeekStart(p)
    \/ ReadEventLog(p)
    \/ ReadEventLogRetry(p)
    \/ LoopEnd(p)
    \/ WriteLastOffset(p)
    \/ Collect(p)

NextRace ==
    \/ \E p \in Procs : RunOnce(p) \/ ScanStep(p)
    \/ \E l \in LogNames : AppendRecord(l)

SpecRace == InitRace /\ [][NextRace]_vars

\* one invocation after another over two logs that do not change, state
\* kept, the first run scanning from the oldest record (--fail-first)
LogsOpts ==
    Merge(NoPatterns,
          [NoState |-> FALSE, FailFirst |-> TRUE, ReturnContent |-> TRUE,
           WarnOver |-> 0, CritOver |-> 0, logList |-> <<"Application", "System">>,
           typeList |-> <<"Error", "Warning">>, idRangeList |-> <<>>])

InitLogs ==
    /\ opts = LogsOpts
    /\ evlog \in [LogNames -> {StaticLog(q) : q \in SeqsUpTo(AppendKinds, MaxAggRecs)}]
    /\ InitRest

SpecLogs == InitLogs /\ [][NextScan]_vars

-----------------------------------------------------------------------------
\* Properties

\* the reference algorithm of the ID-range stage: the state after the first k
\* ranges, for the masked ID e
RefStates(list, e) ==
    LET f[k \in 0..Len(list)] ==
            IF k = 0 THEN [found |-> FALSE, sawPositive |-> FALSE]
            ELSE LET prev == f[k - 1]
                     inside == list[k].lo <= e /\ e <= list[k].hi
                 IN  IF ~list[k].bang
                     THEN [found |-> prev.found \/ inside, sawPositive |-> TRUE]
                     ELSE [found |-> IF inside THEN FALSE
                                     ELSE IF ~prev.sawPositive THEN TRUE ELSE prev.found,
                           sawPositive |-> prev.sawPositive]
    IN  f
RefPass(list, EventID) == RefStates(list, EventID % 65536)[Len(list)].found

\* a record passes every configured stage
Matches(o, r) ==
    /\ o.idRangeList # <<>> => RefPass(o.idRangeList, r.EventID)
    /\ o.typeList # <<>> => \E k \in DOMAIN o.typeList : o.typeList[k] = r.EventType
    /\ ~o.sourcePattern.nil => r.SourceName \in o.sourcePattern.matches
    /\ ~o.sourceExclude.nil => r.SourceName \notin o.sourceExclude.matches
    /\ ~o.messagePattern.nil => r.Message \in o.messagePattern.matches
    /\ ~o.messageExclude.nil => r.Message \notin o.messageExclude.matches

\* how many of the records numbered in seen, all still held by log l, match
\* and have a type in T
CountOf(l, seen, T) ==
    Cardinality({k \in DOMAIN seen :
                    /\ Matches(opts, RecordAt(l, seen[k]))
                    /\ RecordAt(l, seen[k]).EventType \in T})

\* the sequence a, a+1, .., b
Range(a, b) == [k \in 1..(b - a + 1) |-> a + k - 1]

\* searchLog has returned without error from a scan (not from the bootstrap)
ScanReturned(st) ==
    /\ st.pc = "ret"
    /\ st.ret.err = ""
    /\ ~(st.offset = 0 /\ ~opts.NoState /\ ~opts.FailFirst)

\* the offset below which the first run left the records unread
Baseline(l) == IF opts.FailFirst THEN 0 ELSE base[l]

\* C1: with state kept, runs one after another and records only appended, a
\* scan visits exactly the record numbers offset+1 .. oldest+count-1, never a
\* record at or below the loaded offset, no record is visited twice and no
\* record between the bootstrap baseline and the persisted offset is skipped.
C1_EachRecordOnce ==
    (clean /\ ~opts.NoState) =>
        \A l \in LogNames :
            /\ \A n \in 1..MaxRec : visits[l][n] <= 1
            /\ \A n \in 1..MaxRec :
                 (Baseline(l) # NoBase /\ Baseline(l) < n /\ n <= stateFile[l])
                    => visits[l][n] = 1
            /\ \A p \in Procs :
                 (ScanReturned(inv[p]) /\ LogName(p) = l) =>
                    LET st == inv[p]
                    IN  /\ st.seen = Range(st.offset + 1, st.oldnum + st.num - 1)
                        /\ \A k \in 1..Len(st.seen) : st.seen[k] > st.offset

\* searchLog has returned without error from the bootstrap
BootstrapReturned(st) ==
    /\ st.pc = "ret"
    /\ st.ret.err = ""
    /\ st.offset = 0 /\ ~opts.NoState /\ ~opts.FailFirst

\* C2: with no state file for the key, state kept and fail-first not asked,
\* searchLog reads no record, writes oldest+count-1 (the newest record number
\* of a log that holds records) as the offset and returns zero warnings, zero
\* criticals and no content.
C2_Bootstrap ==
    \A p \in Procs :
        LET st == inv[p]
            l == LogName(p)
        IN  (BootstrapReturned(st) /\ ~st.hadFile) =>
                /\ st.seen = <<>> /\ st.size = 0 /\ st.i = 0
                /\ st.ret = [w |-> 0, c |-> 0, errLines |-> <<>>, err |-> ""]
                /\ stateFile[l] = IF st.oldnum + st.num = 0 THEN Width - 1
                                  ELSE st.oldnum + st.num - 1
                /\ (st.num >= 1 /\ NumberOfRecords(l) = st.num /\ OldestRecord(l) = st.oldnum)
                      => stateFile[l] = NextNumber(l) - 1

C2_Witness ==
    \E p \in Procs :
        /\ BootstrapReturned(inv[p]) /\ ~inv[p].hadFile
        /\ inv[p].num >= 2
        /\ NumberOfRecords(LogName(p)) = inv[p].num
        /\ stateFile[LogName(p)] = NextNumber(LogName(p)) - 1

\* the scan of a log whose loaded offset is lower than its oldest record number
Rotated(st) ==
    /\ st.pc \in {"loop", "retry", "write", "ret"}
    /\ st.hadFile /\ ~opts.NoState
    /\ st.offset < st.oldnum
    /\ ~(st.offset = 0 /\ ~opts.FailFirst)

C4_OffsetIsLastVisited ==
    \A p \in Procs :
        LET st == inv[p]
            l == LogName(p)
        IN  (ScanReturned(st) /\ ~opts.NoState /\ ~st.fault) =>
                /\ st.seen # <<>> => stateFile[l] = st.seen[Len(st.seen)]
                /\ (st.hadFile /\ st.oldnum >= 1 /\ st.num >= 1
                        /\ st.offset = st.oldnum + st.num - 1)
                      => (st.seen = <<>> /\ st.size = 0 /\ stateFile[l] = st.offset)

\* a scan that visited records none of which matched
C4_Witness ==
    \E p \in Procs :
        /\ ScanReturned(inv[p]) /\ ~opts.NoState /\ ~inv[p].fault
        /\ Len(inv[p].seen) >= 2
        /\ inv[p].warnNum = 0 /\ inv[p].critNum = 0
        /\ stateFile[LogName(p)] = inv[p].seen[Len(inv[p].seen)]

\* how many records of log l match and have a type in T
CountLog(l, T) ==
    Cardinality({n \in 1..MaxRec :
                    /\ Holds(l, n)
                    /\ Matches(opts, RecordAt(l, n))
                    /\ RecordAt(l, n).EventType \in T})

RECURSIVE SumLogs(_, _)
SumLogs(k, T) == IF k = 0 THEN 0 ELSE SumLogs(k - 1, T) + CountLog(opts.logList[k], T)
Criticals == SumLogs(Len(opts.logList), {"Error", "Audit Failure"})
Warnings == SumLogs(Len(opts.logList), {"Warning"})

\* C5: when no scan fails, the status of run is CRITICAL iff the criticals of
\* all configured logs together exceed CritOver, else WARNING iff the warnings
\* together exceed WarnOver, else OK; a sum equal to its threshold raises
\* nothing.
C5_Status ==
    \A p \in Procs :
        (inv[p].pc = "done" /\ ~inv[p].fault) =>
            /\ inv[p].result = "CRITICAL" <=> Criticals > opts.CritOver
            /\ inv[p].result = "WARNING" <=>
                  (Criticals <= opts.CritOver /\ Warnings > opts.WarnOver)
            /\ inv[p].result = "OK" <=>
                  (Criticals <= opts.CritOver /\ Warnings <= opts.WarnOver)

\* both sums, made of the counts of two logs, equal their thresholds
C5_Witness ==
    \E p \in Procs :
        /\ inv[p].pc = "done" /\ ~inv[p].fault
        /\ inv[p].result = "OK"
        /\ Criticals = opts.CritOver /\ Warnings = opts.WarnOver
        /\ opts.CritOver >= 1 /\ opts.WarnOver >= 1
        /\ \A l \in LogNames : CountLog(l, {"Error", "Audit Failure"}) >= 1

\* searchLog has returned from the scan of a log whose one record it visited
OneVisited(st) == st.pc = "ret" /\ st.ret.err = "" /\ st.seen = <<1>>
TheRecord == RecordAt("Application", 1)
InsideRange(k) ==
    /\ opts.idRangeList[k].lo <= TheRecord.EventID % 65536
    /\ TheRecord.EventID % 65536 <= opts.idRangeList[k].hi
Negated(k) == opts.idRangeList[k].bang

\* C6: for every idRangeList and every EventID the ID-range stage of the loop
\* body passes the record (here: counts the Error record) iff the reference
\* algorithm ends with found true for the ID masked to 16 bits.
C6_IdStageIsReference ==
    \A p \in Procs :
        OneVisited(inv[p]) =>
            /\ inv[p].critNum = 1 <=> RefPass(opts.idRangeList, TheRecord.EventID)
            /\ inv[p].ret.c = inv[p].critNum

C6_Witness ==
    \E p \in Procs :
        /\ OneVisited(inv[p]) /\ inv[p].critNum = 1
        /\ TheRecord.EventID > 65535
        /\ Len(opts.idRangeList) >= 3
        /\ Negated(1) /\ InsideRange(1) /\ ~Negated(2) /\ InsideRange(2)
        /\ Negated(3) /\ ~InsideRange(3)

StaysOff(k) ==
    \A j \in DOMAIN opts.idRangeList :
        j > k =>
            IF Negated(j)
            THEN InsideRange(j) \/ \E m \in 1..(j - 1) : ~Negated(m)
            ELSE ~InsideRange(j)

OnlyNegated == \A k \in DOMAIN opts.idRangeList : Negated(k)

\* C8 as claimed: with negated ranges only, one or more, a record passes iff
\* its masked ID lies in none of them.
C8_DefaultAllowAnyNegated ==
    \A p \in Procs :
        (OneVisited(inv[p]) /\ OnlyNegated) =>
            (inv[p].critNum = 1 <=> \A k \in DOMAIN opts.idRangeList : ~InsideRange(k))

\* C8: with negated ranges only, a record passes iff its masked ID lies
\* outside the last of them; with one negated range, iff outside that range.
C8_DefaultAllowLastNegated ==
    \A p \in Procs :
        (OneVisited(inv[p]) /\ OnlyNegated) =>
            (inv[p].critNum = 1 <=> ~InsideRange(Len(opts.idRangeList)))

C8_Witness ==
    \E p \in Procs :
        /\ OneVisited(inv[p]) /\ OnlyNegated
        /\ Len(opts.idRangeList) = 1
        /\ ~InsideRange(1) /\ inv[p].critNum = 1

\* the step visits a record: the loop body runs on it
VisitStep(p) == Len(inv'[p].seen) = Len(inv[p].seen) + 1
VisitedNumber(p) == inv'[p].seen[Len(inv'[p].seen)]
Visited(p) == RecordAt(LogName(p), VisitedNumber(p))

\* C9: a visited record that passes every filter adds one to critNum when its
\* type is Error or Audit Failure, one to warnNum when it is Warning, nothing
\* to either for any other type; with ReturnContent it is appended to the
\* content whatever its type.
C9_TallyByType ==
    [][\A p \in Procs :
          (VisitStep(p) /\ Matches(opts, Visited(p))) =>
              LET a == inv[p]
                  b == inv'[p]
                  tn == Visited(p).EventType
              IN  /\ b.critNum = a.critNum + IF tn \in {"Error", "Audit Failure"} THEN 1 ELSE 0
                  /\ b.warnNum = a.warnNum + IF tn = "Warning" THEN 1 ELSE 0
                  /\ IF opts.ReturnContent
                     THEN /\ Len(b.errLines) = Len(a.errLines) + 1
                          /\ SubSeq(b.errLines, 1, Len(a.errLines)) = a.errLines
                          /\ b.errLines[Len(b.errLines)][1] = Visited(p).SourceName
                     ELSE b.errLines = a.errLines]_vars

\* a matched Information record: in the content, in neither count
C9_Witness ==
    \E p \in Procs :
        /\ inv[p].pc = "ret" /\ inv[p].seen = <<1, 2>>
        /\ opts.ReturnContent /\ opts.typeList # <<>>
        /\ Matches(opts, RecordAt("Application", 2))
        /\ RecordAt("Application", 2).EventType = "Information"
        /\ ~Matches(opts, RecordAt("Application", 1))
        /\ inv[p].critNum = 0 /\ inv[p].warnNum = 0
        /\ Len(inv[p].errLines) = 1

\* C10: a visited record that fails a configured stage changes neither count
\* nor the content, and lastNumber still becomes its record number.
C10_Conjunction ==
    [][\A p \in Procs :
          (VisitStep(p) /\ ~Matches(opts, Visited(p))) =>
              /\ inv'[p].warnNum = inv[p].warnNum
              /\ inv'[p].critNum = inv[p].critNum
              /\ inv'[p].errLines = inv[p].errLines
              /\ inv'[p].lastNumber = VisitedNumber(p)]_vars

\* the second record fails the message exclusion alone, after a counted first
C10_Witness ==
    \E p \in Procs :
        /\ inv[p].pc = "ret" /\ inv[p].seen = <<1, 2>>
        /\ opts.idRangeList # <<>> /\ opts.typeList # <<>>
        /\ ~opts.messageExclude.nil
        /\ ~Matches(opts, RecordAt("Application", 2))
        /\ Matches([opts EXCEPT !.messageExclude = NilPattern], RecordAt("Application", 2))
        /\ Matches(opts, RecordAt("Application", 1))
        /\ inv[p].critNum = 1 /\ inv[p].warnNum = 0 /\ inv[p].lastNumber = 2

\* searchLog has returned from a scan whose loop a read of a record the log
\* no longer holds (errorInvalidParameter) ended
EolStop(st) == st.pc = "ret" /\ st.stop = "eol" /\ ~st.writeFailed

\* C11: when a read fails with the end-of-log / invalid-parameter condition,
\* searchLog returns no error and the counts and content tallied so far, the
\* state file holds the number of the last record visited (state kept), and
\* run goes on to the next log, or ends with a status other than UNKNOWN.
C11_CleanStop ==
    [][\A p \in Procs :
          (EolStop(inv[p]) /\ inv'[p] # inv[p]) =>
              LET st == inv[p]
              IN  /\ st.ret = [w |-> st.warnNum, c |-> st.critNum,
                               errLines |-> st.errLines, err |-> ""]
                  /\ (~opts.NoState /\ st.seen # <<>>)
                        => stateFile[LogName(p)] = st.seen[Len(st.seen)]
                  /\ inv'[p].result # "UNKNOWN"
                  /\ IF st.logIdx < Len(opts.logList)
                     THEN inv'[p].pc = "load" /\ inv'[p].logIdx = st.logIdx + 1
                     ELSE inv'[p].pc = "done"]_vars

\* searchLog has returned from a scan in which a read failed with an error
\* other than ERROR_INSUFFICIENT_BUFFER and errorInvalidParameter, on the first
\* attempt (line 345) or on the retry (line 359)
ReadFailed(st) ==
    st.pc = "ret" /\ (st.ret.err = "ReadEventLog" \/ st.stop = "error")

\* C12: a read failure that is neither 'buffer too small' nor end-of-log, on
\* the first attempt or on the retry, aborts the scan (searchLog returns the
\* error and writes no offset) and run ends with UNKNOWN.
C12_ReadFailureAborts ==
    [][\A p \in Procs :
          (ReadFailed(inv[p]) /\ inv'[p] # inv[p]) =>
              /\ inv[p].ret.err # ""
              /\ inv[p].wrote = 0
              /\ inv'[p].pc = "done" /\ inv'[p].result = "UNKNOWN"]_vars

\* what searchLog returns at the place of its state write when the write
\* succeeds: nothing at the bootstrap and when recordNumber is 0, else the counts
AfterWrite(st) ==
    IF st.recordNumber = 0 /\ ~opts.FailFirst
    THEN [w |-> 0, c |-> 0, errLines |-> <<>>, err |-> ""]
    ELSE [w |-> st.warnNum, c |-> st.critNum, errLines |-> st.errLines, err |-> ""]

\* C13: when the write of the state file fails, at the bootstrap or at the end
\* of a scan, searchLog returns what it returns when the write succeeds, with
\* no error, and run does not end with UNKNOWN.
C13_WriteFailureHarmless ==
    [][\A p \in Procs :
          (inv[p].pc = "ret" /\ inv[p].writeFailed /\ inv'[p] # inv[p]) =>
              /\ inv[p].ret = AfterWrite(inv[p])
              /\ inv'[p].result # "UNKNOWN"]_vars

\* C14: a failure of OpenEventLog, GetNumberOfEventLogRecords or
\* GetOldestEventLogRecord never ends the process inside searchLog and is
\* never passed over: the scan does not go on after it and searchLog returns
\* an error.
C14_OpenAndBoundsErrorsReturned ==
    \A p \in Procs :
        /\ inv[p].pc # "fatal"
        /\ inv[p].queryFailed => inv[p].pc \in {"oldest", "start", "ret"}
        /\ (inv[p].pc = "ret" /\ inv[p].queryFailed) => inv[p].ret.err # ""

\* the step is a write of the state entry by the scan of p
WriteStep(p) ==
    /\ inv'[p].wrote = inv[p].wrote + 1
    /\ inv[p].pc \in {"start", "write"} /\ inv'[p].pc = "ret"
    /\ inv[p].pc = "start" => (inv[p].seen = <<>> /\ inv[p].attempts = 0)

\* C15: a scan writes the state entry at most once, at the bootstrap before
\* any read or after the record loop has ended, never while it is in the
\* loop; a scan that returns an error has written nothing and the state entry
\* is the one the scan found.
C15_WriteOnceAfterLoop ==
    [][/\ \A l \in LogNames :
             stateFile'[l] # stateFile[l] =>
                \E p \in Procs : inv[p].logIdx >= 1 /\ LogName(p) = l /\ WriteStep(p)
       /\ \A p \in Procs :
             /\ inv'[p].wrote <= 1
             /\ inv'[p].wrote > inv[p].wrote => WriteStep(p)
             /\ inv'[p].pc \in {"loop", "retry"} => inv'[p].wrote = 0
             /\ (inv'[p].pc = "ret" /\ inv'[p].ret.err # "") =>
                   /\ inv'[p].wrote = 0
                   /\ stateFile'[LogName(p)] = inv'[p].before[LogName(p)]]_vars

\* an aborted scan after a completed one: the entry written once, after two
\* records, is still there
C15_Witness ==
    \E p \in Procs :
        /\ inv[p].pc = "ret" /\ inv[p].ret.err = "ReadEventLog"
        /\ inv[p].wrote = 0 /\ inv[p].hadFile
        /\ stateFile[LogName(p)] = 2 /\ visits[LogName(p)][2] = 1
        /\ inv[p].offset = 2

\* searchLog has returned from the bootstrap, its write done or failed
BootstrapTaken(st) ==
    /\ st.pc = "ret" /\ st.ret.err \in {"", "writeLastOffset"}
    /\ st.offset = 0 /\ ~opts.NoState /\ ~opts.FailFirst

\* C16: the bootstrap is taken only when the state file for the key does not
\* exist; with a state file, whatever number it holds, searchLog scans.
C16_BootstrapOnlyWithoutEntry ==
    \A p \in Procs : BootstrapTaken(inv[p]) => ~inv[p].hadFile

\* the scan of p is between SeekStart and its return, before and after the step
InScan(p) ==
    /\ inv[p].pc \in {"loop", "retry", "write"}
    /\ inv'[p].pc \in {"loop", "retry", "write", "ret"}

\* C17: for each record number i of the loop the read is tried at most
\* twice; the second read follows only a first one that found the buffer too
\* small, with the buffer resized to exactly the size reported (the record's
\* length); after the second read the scan visits the record or leaves the
\* loop; the buffer never shrinks during a scan, and a record that fits is
\* visited on the first read.
C17_OneRetry ==
    [][\A p \in Procs :
          LET a == inv[p]
              b == inv'[p]
              l == LogName(p)
          IN  /\ b.attempts <= 2
              /\ (b.pc = "retry" /\ a.pc # "retry") =>
                    /\ a.pc = "loop" /\ b.attempts = 1 /\ b.i = a.i
                    /\ ReadTarget(l, a.i) # 0
                    /\ a.size < RecordAt(l, ReadTarget(l, a.i)).Length
                    /\ b.size = RecordAt(l, ReadTarget(l, a.i)).Length
              /\ (a.pc = "retry" /\ b # a) =>
                    /\ b.attempts = 2 /\ b.size = a.size
                    /\ b.pc \in {"loop", "write"}
                    /\ b.pc = "loop" => (VisitStep(p) /\ b.i = U32(a.i + 1))
              /\ (a.pc = "loop" /\ b.pc = "loop" /\ b # a) =>
                    /\ VisitStep(p) /\ b.attempts = 1
                    /\ b.size = a.size /\ Visited(p).Length <= a.size
              /\ InScan(p) => b.size >= a.size
              /\ VisitStep(p) => Visited(p).Length <= b.size]_vars

\* a record of length 3 read on the retry, then one of length 2 read on the
\* first attempt with the buffer of 3
C17_Witness ==
    \E p \in Procs :
        /\ inv[p].pc = "ret" /\ Len(inv[p].seen) = 2 /\ ~inv[p].fault
        /\ \A k \in 1..2 : Holds(LogName(p), inv[p].seen[k])
        /\ RecordAt(LogName(p), inv[p].seen[1]).Length = 3
        /\ RecordAt(LogName(p), inv[p].seen[2]).Length = 2
        /\ inv[p].size = 3 /\ inv[p].attempts = 1

\* C18: nothing keeps two invocations with the same state file apart: each
\* loads the offset the file holds at that moment, whatever the other is
\* doing, and each write puts its own lastNumber into the file, whatever the
\* file holds, also a higher offset. (The two interleavings of the claim are
\* the witness.)
C18_NoMutualExclusion ==
    [][\A p \in Procs :
          LET a == inv[p]
              b == inv'[p]
          IN  /\ (a.pc = "load" /\ b.pc = "open") =>
                    (b.hadFile /\ b.recordNumber = stateFile[LogName(p)])
              /\ (a.pc = "write" /\ b.pc = "ret" /\ ~b.writeFailed) =>
                    stateFile'[LogName(p)] = a.lastNumber]_vars

\* both invocations loaded offset 1 and both visited and counted record 2; one
\* of them also visited record 3 and wrote 3, the other finished last and
\* wrote 2 over it
C18_Witness ==
    \E p, q \in Procs :
        /\ p # q
        /\ inv[p].pc = "ret" /\ inv[q].pc = "ret"
        /\ ~inv[p].fault /\ ~inv[q].fault
        /\ inv[p].offset = 1 /\ inv[q].offset = 1
        /\ inv[p].seen = <<2>> /\ inv[q].seen = <<2, 3>>
        /\ inv[p].ret.c >= 1 /\ inv[q].ret.c >= 1
        /\ visits["Application"][2] = 2
        /\ inv[p].wrote = 1 /\ inv[q].wrote = 1
        /\ stateFile["Application"] = 2

\* the bounds searchLog queried are those of the log as it is now
BoundsCurrent(p) ==
    /\ inv[p].num = NumberOfRecords(LogName(p))
    /\ inv[p].oldnum = OldestRecord(LogName(p))

\* C19: the offset oldest+count-1 written at the bootstrap is lower than the
\* number of the next record appended, also for the empty log, and a later
\* scan that starts from the bootstrap offset returns the counts it tallied.
C19_NoWrap ==
    \A p \in Procs :
        LET st == inv[p]
            l == LogName(p)
        IN  /\ (BootstrapReturned(st) /\ ~st.fault /\ BoundsCurrent(p))
                  => stateFile[l] < NextNumber(l)
            /\ (ScanReturned(st) /\ st.hadFile /\ ~st.fault /\ st.offset = base[l])
                  => (st.ret.c = st.critNum /\ st.ret.w = st.warnNum)

\* the offset the state file of log l held when the run of st started
OffsetBefore(st, l) == IF st.before[l] = NoFile THEN 0 ELSE st.before[l]

\* C20: when run ends with UNKNOWN, no state file has moved past a matching
\* record that was above its offset when the run started: the counts of the
\* run were not reported, and every such record is still ahead of the offset
\* for a later run.
C20_NoLossOnUnknown ==
    \A p \in Procs :
        (inv[p].pc = "done" /\ inv[p].result = "UNKNOWN") =>
            \A l \in LogNames : \A n \in 1..MaxRec :
                (Holds(l, n) /\ Matches(opts, RecordAt(l, n)) /\ n > OffsetBefore(inv[p], l))
                    => (stateFile[l] = NoFile \/ stateFile[l] < n)

====
